---- MODULE Spec2Model ----
(***************************************************************************)
(* ResearchMind: the chunk / retrieve / synthesize pipeline of             *)
(* src/services/geminiService.ts and the App component that drives it      *)
(* (handleStartResearch and the session handlers, in src/types.ts).        *)
(*                                                                         *)
(* Strings are sequences of one-character strings.  A JavaScript array     *)
(* index i is position i + 1 of the sequence.                              *)
(***************************************************************************)
EXTENDS Integers, Sequences, FiniteSets, TLC

VARIABLES sessions, activeSessionId, isLoading, progressMessage, error,
          run, calls, nextId, harness

vars == <<sessions, activeSessionId, isLoading, progressMessage, error,
          run, calls, nextId, harness>>

(***************************************************************************)
(* Bounds of the model.                                                    *)
(***************************************************************************)
MaxSessions == 2
MaxSources == 2
MaxIds == 3
MaxRespLen == 4
MaxChunks == 11
MaxContext == 2
MaxChunkerSources == 2

(***************************************************************************)
(* Program constants.                                                      *)
(***************************************************************************)
CHUNK_SIZE == 1800
CHUNK_OVERLAP == 200
FALLBACK_COUNT == 10

RequiredFields == {"shortSummary", "extendedSummary", "insights", "quotes", "nextSteps", "quiz"}

(***************************************************************************)
(* Helpers on sequences.                                                   *)
(***************************************************************************)
Min(a, b) == IF a < b THEN a ELSE b

Range(s) == {s[i] : i \in 1..Len(s)}

RECURSIVE SeqsUpTo(_, _)
SeqsUpTo(S, n) ==
    IF n = 0 THEN {<<>>}
    ELSE LET shorter == SeqsUpTo(S, n - 1)
         IN shorter \cup {Append(s, c) : s \in {t \in shorter : Len(t) = n - 1}, c \in S}

\* Array.prototype.slice(from, to) on a zero-based half-open range
slice(s, from, to) == SubSeq(s, from + 1, Min(to, Len(s)))

(***************************************************************************)
(* String operations used by retrievalAgent.                               *)
(***************************************************************************)
Digits == {"0", "1", "2", "3", "4", "5", "6", "7", "8", "9"}

DigitVal(c) ==
    CASE c = "0" -> 0 [] c = "1" -> 1 [] c = "2" -> 2 [] c = "3" -> 3 [] c = "4" -> 4
      [] c = "5" -> 5 [] c = "6" -> 6 [] c = "7" -> 7 [] c = "8" -> 8 [] c = "9" -> 9

WhiteSpace == {" "}

\* String.prototype.trim
RECURSIVE trimStart(_)
trimStart(s) ==
    IF s # <<>> /\ Head(s) \in WhiteSpace THEN trimStart(Tail(s)) ELSE s

RECURSIVE trimEnd(_)
trimEnd(s) ==
    IF s # <<>> /\ s[Len(s)] \in WhiteSpace THEN trimEnd(SubSeq(s, 1, Len(s) - 1)) ELSE s

trim(s) == trimEnd(trimStart(s))

\* String.prototype.split(','): the pieces between the commas; one (empty)
\* piece for the empty string.
RECURSIVE splitFrom(_, _)
splitFrom(s, piece) ==
    IF s = <<>> THEN <<piece>>
    ELSE IF Head(s) = "," THEN <<piece>> \o splitFrom(Tail(s), <<>>)
         ELSE splitFrom(Tail(s), Append(piece, Head(s)))

split(s) == splitFrom(s, <<>>)

\* The value of the longest prefix of digits of s, read after the digits acc.
RECURSIVE digitsValue(_, _)
digitsValue(s, acc) ==
    IF s # <<>> /\ Head(s) \in Digits
    THEN digitsValue(Tail(s), 10 * acc + DigitVal(Head(s)))
    ELSE acc

\* parseInt(s, 10): skips leading white space, takes an optional sign, reads
\* digits up to the first character that is not one; NaN when there is none.
parseInt(s) ==
    LET t == trimStart(s)
        signed == t # <<>> /\ Head(t) \in {"-", "+"}
        body == IF signed THEN Tail(t) ELSE t
    IN IF body = <<>> \/ Head(body) \notin Digits
       THEN [nan |-> TRUE, val |-> 0]
       ELSE [nan |-> FALSE,
             val |-> IF signed /\ Head(t) = "-" THEN 0 - digitsValue(body, 0)
                     ELSE digitsValue(body, 0)]

(***************************************************************************)
(* Values.  A Source is [id, type, title, content, status, file] with file *)
(* TRUE when the source carries its original File.  A Chunk is             *)
(* [id, sourceId, content, metadata].  The template string                 *)
(* `${source.id}-chunk-${n}` is the tuple <<source.id, "-chunk-", n>>.     *)
(* A ResearchOutput is the set of its top-level property names (keys) and  *)
(* the value of its evidenceChunks property; null has no keys.             *)
(***************************************************************************)
undefined ==
    [id |-> <<0, "undefined", 0>>, sourceId |-> 0, content |-> <<>>,
     metadata |-> [sourceTitle |-> "undefined"]]

null == [keys |-> {}, evidenceChunks |-> <<>>]

\* An outcome of an awaited call: it returned value, or it threw message.
Return(v) == [threw |-> FALSE, value |-> v, message |-> ""]
Throw(m) == [threw |-> TRUE, value |-> <<>>, message |-> m]

(***************************************************************************)
(* chunkerAgent: overlapping windows of each source's content.             *)
(***************************************************************************)
\* a substring that is one character short
substringShort(text, from, to) == SubSeq(text, from + 1, Min(to, Len(text)) - 1)

\* String.prototype.substring(from, to), 0 <= from <= to
substring(text, from, to) == SubSeq(text, from + 1, Min(to, Len(text)))

\* a step that forgets the overlap
strideOfWindow == CHUNK_SIZE

\* the step of the for loop
chunkStride == CHUNK_SIZE - CHUNK_OVERLAP

\* an id numbered within its source
chunkIdPerSource(source, i, allChunks) == <<source.id, "-chunk-", i \div chunkStride>>

\* `${source.id}-chunk-${allChunks.length}`
chunkId(source, i, allChunks) == <<source.id, "-chunk-", Len(allChunks)>>

\* the for loop of chunkerAgent over one source, from offset i
RECURSIVE chunkLoop(_, _, _)
chunkLoop(source, i, allChunks) ==
    IF i < Len(source.content)
    THEN chunkLoop(source, i + chunkStride,
                   Append(allChunks,
                          [id |-> chunkId(source, i, allChunks),
                           sourceId |-> source.id,
                           content |-> substring(source.content, i, i + CHUNK_SIZE),
                           metadata |-> [sourceTitle |-> source.title]]))
    ELSE allChunks

\* the forEach of chunkerAgent; a source with falsy (empty) content is skipped
RECURSIVE chunkEach(_, _)
chunkEach(sources, allChunks) ==
    IF sources = <<>> THEN allChunks
    ELSE chunkEach(Tail(sources),
                   IF Head(sources).content = <<>> THEN allChunks
                   ELSE chunkLoop(Head(sources), 0, allChunks))

chunkerAgent(sources) == chunkEach(sources, <<>>)

(***************************************************************************)
(* retrievalAgent.  The ranking call settles with a response whose text is *)
(* a string ("text"), with a response that has no text ("notext"), or it   *)
(* fails ("fail").                                                         *)
(***************************************************************************)
RankText(t) == [kind |-> "text", text |-> t]
RankNoText == [kind |-> "notext", text |-> <<>>]
RankFail == [kind |-> "fail", text |-> <<>>]

\* chunks[index] of JavaScript: undefined outside 0 .. length - 1
elementAt(chunks, index) ==
    IF index >= 0 /\ index < Len(chunks) THEN chunks[index + 1] ELSE undefined

\* the predicate of the filter over the parsed indices
keepIndex(i, chunks) == ~i.nan /\ i.val < Len(chunks)

\* indicesStr.split(',').map(i => parseInt(i.trim(), 10)).filter(...)
relevantIndicesOf(indicesStr, chunks) ==
    LET pieces == split(indicesStr)
        parsed == [k \in 1..Len(pieces) |-> parseInt(trim(pieces[k]))]
    IN SelectSeq(parsed, LAMBDA i : keepIndex(i, chunks))

\* the fallback of both the empty selection and the catch block
fallbackChunks(chunks) == slice(chunks, 0, FALLBACK_COUNT)

\* the body of the try block, after the ranking call has settled
retrievalTry(chunks, outcome) ==
    IF outcome.kind = "fail" THEN Throw("ranking call failed")
    ELSE IF outcome.kind = "notext" THEN Throw("Cannot read properties of undefined (reading 'trim')")
    ELSE LET indicesStr == trim(outcome.text)
             relevantIndices == relevantIndicesOf(indicesStr, chunks)
         IN IF Len(relevantIndices) = 0
            THEN Return(fallbackChunks(chunks))
            ELSE Return([k \in 1..Len(relevantIndices) |->
                            elementAt(chunks, relevantIndices[k].val)])

\* a catch block that lets the error of the try block through
retrievalRethrow(chunks, tried) == tried

\* the catch block: whatever the try block threw, the fallback is returned
retrievalCatch(chunks, tried) ==
    IF tried.threw THEN Return(fallbackChunks(chunks)) ELSE tried

retrievalAgent(chunks, outcome) == retrievalCatch(chunks, retrievalTry(chunks, outcome))

(***************************************************************************)
(* synthesisAgent.  The generation call settles like the ranking call; the *)
(* text of a response either is well-formed JSON for a value (wellFormed), *)
(* or is not.  A JSON value is the set of its own enumerable property      *)
(* names (empty for null and numbers) and its evidenceChunks property.     *)
(***************************************************************************)
GenText(wf, keys, ev) ==
    [kind |-> "text", wellFormed |-> wf, keys |-> keys, evidenceChunks |-> ev]
GenNoText == [kind |-> "notext", wellFormed |-> FALSE, keys |-> {}, evidenceChunks |-> <<>>]
GenFail == [kind |-> "fail", wellFormed |-> FALSE, keys |-> {}, evidenceChunks |-> <<>>]

JSONparse(text) ==
    IF text.wellFormed
    THEN Return([keys |-> text.keys, evidenceChunks |-> text.evidenceChunks])
    ELSE Throw("Unexpected end of JSON input")

\* a spread written after the evidenceChunks property
evidenceThenSpread(generatedOutput, contextChunks) ==
    [keys |-> generatedOutput.keys \cup {"evidenceChunks"},
     evidenceChunks |-> IF "evidenceChunks" \in generatedOutput.keys
                        THEN generatedOutput.evidenceChunks ELSE contextChunks]

\* { ...generatedOutput, evidenceChunks: contextChunks }
spreadWithEvidence(generatedOutput, contextChunks) ==
    [keys |-> generatedOutput.keys \cup {"evidenceChunks"},
     evidenceChunks |-> contextChunks]

\* contextChunks.map(chunk => ... chunk.metadata.sourceTitle ...), which runs
\* before the try block: an undefined element throws a TypeError
contextThrows(contextChunks) == \E k \in 1..Len(contextChunks) : contextChunks[k] = undefined

\* the body of the try block, after the generation call has settled
synthesisTry(contextChunks, outcome) ==
    IF outcome.kind = "fail" THEN Throw("generation call failed")
    ELSE IF outcome.kind = "notext" THEN Throw("Cannot read properties of undefined (reading 'trim')")
    ELSE LET generatedOutput == JSONparse(outcome)
         IN IF generatedOutput.threw THEN generatedOutput
            ELSE Return(spreadWithEvidence(generatedOutput.value, contextChunks))

SynthesisMessage == "Failed to synthesize the research report."

\* a catch block that rethrows the error it caught
synthesisRethrow(tried) == tried

\* the catch block: every error of the try block is replaced by one message
synthesisCatch(tried) ==
    IF tried.threw THEN Throw(SynthesisMessage) ELSE tried

synthesisContextError == "Cannot read properties of undefined (reading 'metadata')"

\* synthesisAgent: the context is built outside the try block, so that its
\* TypeError is not replaced; the generation call is issued only after it
synthesisAgent(contextChunks, outcome) ==
    IF contextThrows(contextChunks) THEN Throw(synthesisContextError)
    ELSE synthesisCatch(synthesisTry(contextChunks, outcome))

(***************************************************************************)
(* The App component: sessions, the active session and one pipeline run.   *)
(* Session and source ids (crypto.randomUUID) are fresh numbers; 0 is the  *)
(* null activeSessionId.  An error message is the sequence of the pieces   *)
(* of its template string; <<>> is the null error.                         *)
(***************************************************************************)
\* the files offered to the file input; the accept list admits supported types
FileTitles == {"a.pdf"}
PastedTexts == {<<"p">>}
Topics == {<<"q">>}
ParseTexts == {<<>>, <<"a", "b">>}
ParseErrors == {"Error reading the file."}

ParseOutcomes == {Return(t) : t \in ParseTexts} \cup {Throw(m) : m \in ParseErrors}

RankTexts ==
    {<<>>, <<"a">>, <<"0">>, <<"-", "1">>, <<"1", ",", "0">>}

RankOutcomes == {RankFail, RankNoText} \cup {RankText(t) : t \in RankTexts}

EchoedEvidence == {<<>>, <<undefined>>}

GenKeySets ==
    {RequiredFields, RequiredFields \cup {"evidenceChunks"}, {}}
        \cup {RequiredFields \ {"quiz"}}

GenOutcomes ==
    {GenFail, GenNoText, GenText(FALSE, {}, <<>>)}
        \cup {GenText(TRUE, ks, IF "evidenceChunks" \in ks THEN <<undefined>> ELSE <<>>) :
                ks \in GenKeySets}

NoRun ==
    [pc |-> "idle", sessionId |-> 0, topic |-> <<>>, sources |-> <<>>,
     settled |-> <<>>, parsedSources |-> <<>>, successfullyParsed |-> <<>>,
     chunks |-> <<>>, relevantChunks |-> <<>>, priorResults |-> null]

NoHarness == [agent |-> "none"]

newSession(id) == [id |-> id, topic |-> <<>>, sources |-> <<>>, results |-> null]

\* sessions.find(s => s.id === activeSessionId); <<>> when there is none
sessionsWithId(ss, id) == SelectSeq(ss, LAMBDA s : s.id = id)

hasActiveSession == sessionsWithId(sessions, activeSessionId) # <<>>

activeSession == Head(sessionsWithId(sessions, activeSessionId))

\* updateActiveSession, for the activeSessionId its caller's render captured;
\* updated[k] is the updater applied to session k
updateActiveSession(ss, id, updated) ==
    IF id = 0 THEN ss
    ELSE [k \in 1..Len(ss) |-> IF ss[k].id = id THEN updated[k] ELSE ss[k]]

\* a write that goes to the session that is active when it is made
currentActiveSessionId(captured, current) == current

\* the activeSessionId in the closure of the updateActiveSession a run calls:
\* the one of the render in which the run was started
capturedActiveSessionId(captured, current) == captured

\* the Source type of a file, from its extension; "" when it is not supported
fileType(title) == IF title = "a.pdf" THEN "pdf" ELSE ""

\* an opening write that leaves the results in place
keepResults(s) == s

\* the updater of the write that opens a run
clearResults(s) == [s EXCEPT !.results = null]

\* a combinator that resolves with the first task to settle
anyTaskSettled(settled) == \E j \in 1..Len(settled) : settled[j]

\* Promise.all over the parse tasks resolves once every task has settled
allTasksSettled(settled) == \A j \in 1..Len(settled) : settled[j]

\* guards that never stop the run
usableSourcesUnchecked(successfullyParsed) == FALSE

chunksUnchecked(chunks) == FALSE

\* the two guards between ingesting and retrieving
noUsableSources(successfullyParsed) == Len(successfullyParsed) = 0

noChunks(chunks) == Len(chunks) = 0

NoSourcesMessage == "No sources could be processed. Please check the files and try again."
NoChunksMessage == "Could not extract any text from the sources."

\* no continuation of the run is queued as a microtask: user events can fire
eventLoopIdle == run.pc # "allSettled"

Init ==
    /\ sessions = <<newSession(1)>>
    /\ activeSessionId = 1
    /\ isLoading = FALSE
    /\ progressMessage = ""
    /\ error = <<>>
    /\ run = NoRun
    /\ calls = <<>>
    /\ nextId = 2
    /\ harness = NoHarness

(***************************************************************************)
(* Session handlers.                                                       *)
(***************************************************************************)
handleNewResearch ==
    /\ eventLoopIdle
    /\ Len(sessions) < MaxSessions
    /\ nextId <= MaxIds
    /\ sessions' = <<newSession(nextId)>> \o sessions
    /\ activeSessionId' = nextId
    /\ nextId' = nextId + 1
    /\ UNCHANGED <<isLoading, progressMessage, error, run, calls, harness>>

handleSelectSession(id) ==
    /\ eventLoopIdle
    /\ id # activeSessionId
    /\ activeSessionId' = id
    /\ UNCHANGED <<sessions, isLoading, progressMessage, error, run, calls, nextId, harness>>

handleDeleteSession(id) ==
    /\ eventLoopIdle
    /\ LET remainingSessions == SelectSeq(sessions, LAMBDA s : s.id # id)
       IN IF activeSessionId # id
          THEN /\ sessions' = remainingSessions
               /\ UNCHANGED <<activeSessionId, nextId>>
          ELSE IF Len(remainingSessions) > 0
          THEN /\ sessions' = remainingSessions
               /\ activeSessionId' = remainingSessions[1].id
               /\ UNCHANGED nextId
          ELSE /\ nextId <= MaxIds
               /\ sessions' = <<newSession(nextId)>>
               /\ activeSessionId' = nextId
               /\ nextId' = nextId + 1
    /\ UNCHANGED <<isLoading, progressMessage, error, run, calls, harness>>

\* the topic input's onChange; the input is disabled while isLoading
handleTopicChange(topic) ==
    /\ eventLoopIdle
    /\ hasActiveSession
    /\ ~isLoading
    /\ activeSession.topic # topic
    /\ sessions' = updateActiveSession(sessions, activeSessionId,
                                       [k \in 1..Len(sessions) |-> [sessions[k] EXCEPT !.topic = topic]])
    /\ UNCHANGED <<activeSessionId, isLoading, progressMessage, error, run, calls, nextId, harness>>

\* one file chosen in the file input, which is never disabled
handleFileChange(title) ==
    /\ eventLoopIdle
    /\ hasActiveSession
    /\ IF fileType(title) = ""
       THEN /\ error' = <<"File type for \"", title, "\" is not supported.">>
            /\ UNCHANGED <<sessions, nextId>>
       ELSE /\ Len(activeSession.sources) < MaxSources
            /\ nextId <= MaxIds
            /\ LET newSource == [id |-> nextId, type |-> fileType(title), title |-> title,
                                 content |-> <<>>, status |-> "pending", file |-> TRUE]
               IN sessions' = updateActiveSession(sessions, activeSessionId,
                                  [k \in 1..Len(sessions) |-> [sessions[k] EXCEPT !.sources = Append(sessions[k].sources, newSource)]])
            /\ nextId' = nextId + 1
            /\ UNCHANGED error
    /\ UNCHANGED <<activeSessionId, isLoading, progressMessage, run, calls, harness>>

\* the Add Text button, disabled while isLoading or the text is blank
handleAddPastedText(pastedText) ==
    /\ eventLoopIdle
    /\ ~isLoading
    /\ trim(pastedText) # <<>>
    /\ hasActiveSession
    /\ Len(activeSession.sources) < MaxSources
    /\ nextId <= MaxIds
    /\ LET newSource == [id |-> nextId, type |-> "pasted", title |-> "Pasted Text",
                         content |-> pastedText, status |-> "complete", file |-> FALSE]
       IN sessions' = updateActiveSession(sessions, activeSessionId,
                          [k \in 1..Len(sessions) |-> [sessions[k] EXCEPT !.sources = Append(sessions[k].sources, newSource)]])
    /\ nextId' = nextId + 1
    /\ UNCHANGED <<activeSessionId, isLoading, progressMessage, error, run, calls, harness>>

\* the remove button of a source, disabled while isLoading
removeSource(id) ==
    /\ eventLoopIdle
    /\ ~isLoading
    /\ hasActiveSession
    /\ \E k \in 1..Len(activeSession.sources) : activeSession.sources[k].id = id
    /\ sessions' = updateActiveSession(sessions, activeSessionId,
                       [k \in 1..Len(sessions) |-> [sessions[k] EXCEPT !.sources = SelectSeq(sessions[k].sources, LAMBDA src : src.id # id)]])
    /\ UNCHANGED <<activeSessionId, isLoading, progressMessage, error, run, calls, nextId, harness>>

(***************************************************************************)
(* handleStartResearch.  The handler runs to its first pending await in    *)
(* one step, and from the settling of an awaited promise to the next       *)
(* pending await (or to its end) in one step.  run.pc is its position:     *)
(*   idle        no run was started yet                                    *)
(*   ingesting   awaiting Promise.all of the per-source parse tasks        *)
(*   allSettled  every task has settled, the continuation is queued        *)
(*   retrieving  awaiting retrievalAgent (the ranking call is in flight)   *)
(*   synthesizing awaiting synthesisAgent (the generation call in flight)  *)
(*   complete    ended through the end of the try block                    *)
(*   errored     ended through the catch block                             *)
(* A click that one of the two guards before the try block turns down      *)
(* starts no run.                                                          *)
(* calls is the sequence of external calls the current run has issued.     *)
(* run.priorResults records the results of the session when the run was    *)
(* started.                                                                *)
(***************************************************************************)
runInProgress == run.pc \in {"ingesting", "allSettled", "retrieving", "synthesizing"}

\* the first statement of the map callback: sources that need no parsing
needsNoParse(source) == source.status = "complete" \/ ~source.file

\* what a parse task returns for its source once the parser has settled
parsedSource(source, outcome) ==
    IF outcome.threw THEN [source EXCEPT !.status = "error"]
    ELSE [source EXCEPT !.content = outcome.value, !.status = "complete"]

\* a catch block that shows the bare message of the error
bareMessage(errorMessage) == <<errorMessage>>

\* `Research failed: ${errorMessage}`
researchFailed(errorMessage) == <<"Research failed: ", errorMessage>>

\* a handler without a finally block
runWithoutFinally == UNCHANGED <<isLoading, progressMessage>>

\* the finally block: setIsLoading(false); setProgressMessage('')
runFinally ==
    /\ isLoading' = FALSE
    /\ progressMessage' = ""

\* the catch and finally blocks of handleStartResearch
runCatch(errorMessage, r) ==
    /\ error' = researchFailed(errorMessage)
    /\ runFinally
    /\ run' = [r EXCEPT !.pc = "errored"]

\* a button that is disabled only while there is no source
analyzeDisabledNoSources == Len(activeSession.sources) = 0

\* disabled={isLoading || activeSession.sources.length === 0}
analyzeDisabled == isLoading \/ Len(activeSession.sources) = 0

handleStartResearch ==
    /\ eventLoopIdle
    /\ hasActiveSession
    /\ ~analyzeDisabled
    /\ IF trim(activeSession.topic) = <<>>
       THEN /\ error' = <<"Please enter a research topic.">>
            /\ UNCHANGED <<sessions, isLoading, progressMessage, run, calls>>
       ELSE LET srcs == activeSession.sources
                immediate == [k \in 1..Len(srcs) |-> needsNoParse(srcs[k])]
            IN /\ isLoading' = TRUE
               /\ error' = <<>>
               /\ sessions' = updateActiveSession(sessions, activeSessionId,
                                  [k \in 1..Len(sessions) |-> clearResults(sessions[k])])
               /\ progressMessage' = "Ingesting sources..."
               /\ calls' = <<>>
               /\ run' = [NoRun EXCEPT
                            !.pc = IF allTasksSettled(immediate)
                                   THEN "allSettled" ELSE "ingesting",
                            !.sessionId = activeSessionId,
                            !.topic = activeSession.topic,
                            !.sources = srcs,
                            !.settled = immediate,
                            !.parsedSources = srcs,
                            !.priorResults = activeSession.results]
    /\ UNCHANGED <<activeSessionId, nextId, harness>>

\* the parser of source k settles; the task's own try/catch absorbs a failure
ParseSettles(k, outcome) ==
    /\ run.pc = "ingesting"
    /\ k \in 1..Len(run.sources)
    /\ ~run.settled[k]
    /\ LET settled == [run.settled EXCEPT ![k] = TRUE]
       IN run' = [run EXCEPT
                    !.settled = settled,
                    !.parsedSources[k] = parsedSource(run.sources[k], outcome),
                    !.pc = IF allTasksSettled(settled)
                           THEN "allSettled" ELSE "ingesting"]
    /\ error' = IF outcome.threw
                THEN <<"Failed to process ", run.sources[k].title, ": ", outcome.message>>
                ELSE error
    /\ UNCHANGED <<sessions, activeSessionId, isLoading, progressMessage, calls, nextId, harness>>

\* Promise.all has resolved: filter, write the sources back, chunk, and call
\* retrievalAgent, which issues the ranking call
IngestDone ==
    /\ run.pc = "allSettled"
    /\ LET successfullyParsed == SelectSeq(run.parsedSources, LAMBDA s : s.status = "complete")
           chunks == chunkerAgent(successfullyParsed)
           written == updateActiveSession(sessions, capturedActiveSessionId(run.sessionId, activeSessionId),
                          [k \in 1..Len(sessions) |-> [sessions[k] EXCEPT !.sources = run.parsedSources]])
       IN IF noUsableSources(successfullyParsed)
          THEN /\ runCatch(NoSourcesMessage, run)
               /\ UNCHANGED <<sessions, calls>>
          ELSE IF noChunks(chunks)
          THEN /\ sessions' = written
               /\ runCatch(NoChunksMessage,
                           [run EXCEPT !.successfullyParsed = successfullyParsed])
               /\ UNCHANGED calls
          ELSE /\ sessions' = written
               /\ progressMessage' = "Finding relevant info..."
               /\ calls' = Append(calls, [service |-> "ranking", chunks |-> chunks])
               /\ run' = [run EXCEPT !.pc = "retrieving",
                                     !.successfullyParsed = successfullyParsed,
                                     !.chunks = chunks]
               /\ UNCHANGED <<error, isLoading>>
    /\ UNCHANGED <<activeSessionId, nextId, harness>>

\* a handler that hands synthesisAgent every chunk
synthesisInputAll(chunks, relevantChunks) == chunks

\* the second argument of synthesisAgent(activeSession.topic, relevantChunks)
synthesisInput(chunks, relevantChunks) == relevantChunks

\* the ranking call settles: retrievalAgent returns (or throws), and the
\* handler calls synthesisAgent, which builds its context and issues the
\* generation call
RankingSettles(outcome) ==
    /\ run.pc = "retrieving"
    /\ LET retrieved == retrievalAgent(run.chunks, outcome)
           contextChunks == synthesisInput(run.chunks, retrieved.value)
       IN IF retrieved.threw
          THEN /\ runCatch(retrieved.message, run)
               /\ UNCHANGED calls
          ELSE IF contextThrows(contextChunks)
          THEN /\ runCatch(synthesisContextError, [run EXCEPT !.relevantChunks = retrieved.value])
               /\ UNCHANGED calls
          ELSE /\ progressMessage' = "Synthesizing research..."
               /\ calls' = Append(calls, [service |-> "generation", chunks |-> contextChunks])
               /\ run' = [run EXCEPT !.pc = "synthesizing", !.relevantChunks = retrieved.value]
               /\ UNCHANGED <<error, isLoading>>
    /\ UNCHANGED <<sessions, activeSessionId, nextId, harness>>

\* the generation call settles: synthesisAgent returns or throws
GenerationSettles(outcome) ==
    /\ run.pc = "synthesizing"
    /\ LET finalResults == synthesisAgent(synthesisInput(run.chunks, run.relevantChunks), outcome)
       IN IF finalResults.threw
          THEN /\ runCatch(finalResults.message, run)
               /\ UNCHANGED sessions
          ELSE /\ sessions' = updateActiveSession(sessions, capturedActiveSessionId(run.sessionId, activeSessionId),
                                  [k \in 1..Len(sessions) |-> [sessions[k] EXCEPT !.results = finalResults.value]])
               /\ runFinally
               /\ run' = [run EXCEPT !.pc = "complete"]
               /\ UNCHANGED error
    /\ UNCHANGED <<activeSessionId, calls, nextId, harness>>

Next ==
    \/ handleNewResearch
    \/ \E k \in 1..Len(sessions) : handleSelectSession(sessions[k].id)
    \/ \E k \in 1..Len(sessions) : handleDeleteSession(sessions[k].id)
    \/ \E topic \in Topics : handleTopicChange(topic)
    \/ \E title \in FileTitles : handleFileChange(title)
    \/ \E pastedText \in PastedTexts : handleAddPastedText(pastedText)
    \/ \E id \in 1..MaxIds : removeSource(id)
    \/ handleStartResearch
    \/ \E k \in 1..MaxSources, outcome \in ParseOutcomes : ParseSettles(k, outcome)
    \/ IngestDone
    \/ \E outcome \in RankOutcomes : RankingSettles(outcome)
    \/ \E outcome \in GenOutcomes : GenerationSettles(outcome)

Spec == Init /\ [][Next]_vars

\* every pending parse and every call in flight eventually settles, and the
\* continuation queued by Promise.all is run
Fairness ==
    /\ WF_vars(\E k \in 1..MaxSources, outcome \in ParseOutcomes : ParseSettles(k, outcome))
    /\ WF_vars(IngestDone)
    /\ WF_vars(\E outcome \in RankOutcomes : RankingSettles(outcome))
    /\ WF_vars(\E outcome \in GenOutcomes : GenerationSettles(outcome))

SpecFair == Spec /\ Fairness

(***************************************************************************)
(* The agents on their own: retrievalAgent and synthesisAgent applied to   *)
(* every input of a bounded set.  harness holds one call: its arguments,   *)
(* the outcome of the external call it awaits, and what the caller gets.   *)
(***************************************************************************)
RespChars == {"0", "1", "-", ",", "a", " "}

AllRankOutcomes ==
    {RankFail, RankNoText} \cup {RankText(t) : t \in SeqsUpTo(RespChars, MaxRespLen)}

\* retrievalAgent is only called with at least one chunk
ChunkCounts == {1, 2, MaxChunks}

\* the k-th chunk (zero-based) of a list that chunkerAgent cut from source 1
someChunk(k) ==
    [id |-> <<1, "-chunk-", k>>, sourceId |-> 1, content |-> <<"c">>,
     metadata |-> [sourceTitle |-> "a.pdf"]]

someChunks(n) == [k \in 1..n |-> someChunk(k - 1)]

AllGenOutcomes ==
    {GenFail, GenNoText, GenText(FALSE, {}, <<>>)}
        \cup {GenText(TRUE, ks, <<>>) : ks \in SUBSET RequiredFields}
        \cup {GenText(TRUE, ks \cup {"evidenceChunks"}, ev) :
                ks \in SUBSET RequiredFields, ev \in EchoedEvidence}

\* synthesisAgent is only called with what retrievalAgent returned: never empty
ContextLists == SeqsUpTo({someChunk(0), someChunk(1), undefined}, MaxContext) \ {<<>>}

programIdle ==
    /\ sessions = <<newSession(1)>>
    /\ activeSessionId = 1
    /\ isLoading = FALSE
    /\ progressMessage = ""
    /\ error = <<>>
    /\ run = NoRun
    /\ calls = <<>>
    /\ nextId = 2

InitRetrieval ==
    /\ programIdle
    /\ \E n \in ChunkCounts, outcome \in AllRankOutcomes :
          harness = [agent |-> "retrievalAgent", chunks |-> someChunks(n),
                     outcome |-> outcome, called |-> FALSE, result |-> Return(<<>>)]

CallRetrievalAgent ==
    /\ harness.agent = "retrievalAgent"
    /\ ~harness.called
    /\ harness' = [harness EXCEPT !.called = TRUE,
                                  !.result = retrievalAgent(harness.chunks, harness.outcome)]
    /\ UNCHANGED <<sessions, activeSessionId, isLoading, progressMessage, error, run, calls, nextId>>

SpecRetrieval == InitRetrieval /\ [][CallRetrievalAgent]_vars

InitSynthesis ==
    /\ programIdle
    /\ \E contextChunks \in ContextLists, outcome \in AllGenOutcomes :
          harness = [agent |-> "synthesisAgent", chunks |-> contextChunks,
                     outcome |-> outcome, called |-> FALSE, result |-> Return(null)]

CallSynthesisAgent ==
    /\ harness.agent = "synthesisAgent"
    /\ ~harness.called
    /\ harness' = [harness EXCEPT !.called = TRUE,
                                  !.result = synthesisAgent(harness.chunks, harness.outcome)]
    /\ UNCHANGED <<sessions, activeSessionId, isLoading, progressMessage, error, run, calls, nextId>>

SpecSynthesis == InitSynthesis /\ [][CallSynthesisAgent]_vars

(***************************************************************************)
(* Properties.                                                             *)
(***************************************************************************)
returned == harness.called /\ ~harness.result.threw

\* C1: every successful call of synthesisAgent returns a result whose
\* evidenceChunks is exactly the contextChunks it was given, whatever the
\* generation response carried (an evidenceChunks property of its own included).
C1_EvidenceIsContext ==
    (harness.agent = "synthesisAgent" /\ returned)
        => harness.result.value.evidenceChunks = harness.chunks

C1_Witness ==
    /\ harness.agent = "synthesisAgent" /\ returned
    /\ "evidenceChunks" \in harness.outcome.keys
    /\ harness.outcome.evidenceChunks # harness.chunks
    /\ Len(harness.chunks) = 2
    /\ harness.result.value.evidenceChunks = harness.chunks

\* C2: synthesisAgent throws whenever the generation response does not parse
\* as JSON or parses but lacks one of the six required top-level fields.
C2_InvalidResponseThrows ==
    (/\ harness.agent = "synthesisAgent" /\ harness.called
     /\ harness.outcome.kind = "text"
     /\ (~harness.outcome.wellFormed \/ ~(RequiredFields \subseteq harness.outcome.keys)))
        => harness.result.threw

\* the first min(10, n) chunks, in their original order
firstTen(chunks) == [k \in 1..Min(10, Len(chunks)) |-> chunks[k]]

\* the indices a ranking response text names, as the claims read it: the
\* comma-separated pieces that parse as integers, and those of them that lie
\* in 0 .. n - 1
namedIndices(text) ==
    LET pieces == split(trim(text))
    IN [k \in 1..Len(pieces) |-> parseInt(trim(pieces[k]))]

inRange(i, n) == ~i.nan /\ i.val >= 0 /\ i.val < n

validIndices(text, n) == SelectSeq(namedIndices(text), LAMBDA i : inRange(i, n))

\* C4: retrievalAgent never throws to its caller, whatever the ranking call
\* does; when the ranking call fails it returns the first min(10, n) chunks
\* in original order.
C4_RetrievalNeverThrows ==
    (harness.agent = "retrievalAgent" /\ harness.called)
        => /\ ~harness.result.threw
           /\ harness.outcome.kind = "fail" => harness.result.value = firstTen(harness.chunks)

C4_Witness ==
    /\ harness.agent = "retrievalAgent" /\ returned
    /\ harness.outcome.kind = "fail"
    /\ Len(harness.chunks) > 10
    /\ Len(harness.result.value) = 10

\* C5: every element of the list retrievalAgent returns is one of the chunks
\* of its input list, for every response text (unparsable, negative and too
\* large indices are discarded).
C5_ReturnsOnlyInputChunks ==
    (harness.agent = "retrievalAgent" /\ returned)
        => \A k \in 1..Len(harness.result.value) :
              harness.result.value[k] \in Range(harness.chunks)

\* C6: a ranking response that is empty, names no number, or names only
\* indices outside 0 .. n - 1 makes retrievalAgent return the first
\* min(10, n) chunks in original order.
C6_NoValidIndexGivesFallback ==
    (/\ harness.agent = "retrievalAgent" /\ harness.called
     /\ harness.outcome.kind = "text"
     /\ validIndices(harness.outcome.text, Len(harness.chunks)) = <<>>)
        => harness.result = Return(firstTen(harness.chunks))

\* C7: a ranking response with at least one valid index makes retrievalAgent
\* return chunks[i] for each valid index i in response order, repeats kept,
\* invalid indices dropped.
C7_ValidIndicesMapInOrder ==
    LET valid == validIndices(harness.outcome.text, Len(harness.chunks))
    IN (/\ harness.agent = "retrievalAgent" /\ harness.called
        /\ harness.outcome.kind = "text"
        /\ valid # <<>>)
          => harness.result = Return([k \in 1..Len(valid) |-> harness.chunks[valid[k].val + 1]])

\* the sessions the run was started on (none once it was deleted)
runSessions == sessionsWithId(sessions, run.sessionId)

synthesisFailed ==
    /\ run.pc = "errored"
    /\ run.relevantChunks # <<>>
    /\ error \in {<<"Research failed: ", SynthesisMessage>>,
                  <<"Research failed: ", synthesisContextError>>}

everySourceFailed ==
    /\ run.sources # <<>>
    /\ \A k \in 1..Len(run.sources) :
          /\ ~needsNoParse(run.sources[k])
          /\ run.settled[k]
          /\ run.parsedSources[k].status = "error"

\* C8: if every source of a run fails to parse, the run ends errored with
\* the "no usable sources" cause, and no ranking or generation call is issued
\* in the whole run.
C8_AllFailedStopsBeforeCalls ==
    [][(run.pc = "allSettled" /\ everySourceFailed)
          => /\ run'.pc = "errored"
             /\ error' = <<"Research failed: ", NoSourcesMessage>>
             /\ calls = <<>> /\ calls' = <<>>]_vars

C8_Witness ==
    /\ run.pc = "errored"
    /\ everySourceFailed
    /\ Len(run.sources) = 2
    /\ error = <<"Research failed: ", NoSourcesMessage>>
    /\ calls = <<>>

\* the positions of the complete sources among the parsed sources
completePositions == {k \in 1..Len(run.parsedSources) : run.parsedSources[k].status = "complete"}

\* the i-th smallest element of a set of numbers
nth(S, i) == CHOOSE k \in S : Cardinality({j \in S : j < k}) = i - 1

pastIngest == run.pc \in {"retrieving", "synthesizing", "complete", "errored"}

\* C9: the run goes past ingesting only once every source's task has
\* settled; a run with at least one complete source is not stopped for lack
\* of sources, and the chunker is given exactly the complete sources, in
\* source order.
C9_IsolatedFanOut ==
    pastIngest =>
        /\ \A k \in 1..Len(run.sources) : run.settled[k]
        /\ \A k \in 1..Len(run.sources) : run.parsedSources[k].id = run.sources[k].id
        /\ completePositions # {} =>
              /\ error # <<"Research failed: ", NoSourcesMessage>>
              /\ Len(run.successfullyParsed) = Cardinality(completePositions)
              /\ \A i \in 1..Len(run.successfullyParsed) :
                    run.successfullyParsed[i] = run.parsedSources[nth(completePositions, i)]
              /\ run.pc # "errored" => run.chunks = chunkerAgent(run.successfullyParsed)

C9_Witness ==
    /\ run.pc = "retrieving"
    /\ Len(run.sources) = 2
    /\ run.parsedSources[1].status = "error"
    /\ run.parsedSources[2].status = "complete"
    /\ Len(run.successfullyParsed) = 1
    /\ run.successfullyParsed[1].id = run.sources[2].id

\* some source of the run is complete and every complete one has no content
onlyEmptyContent ==
    /\ completePositions # {}
    /\ \A k \in completePositions : run.parsedSources[k].content = <<>>

\* C10: if the complete sources yield zero chunks (all have empty content),
\* the run ends errored with the "no chunks" cause and no ranking or
\* generation call is issued in that run.
C10_NoChunksStopsBeforeCalls ==
    [][(run.pc = "allSettled" /\ onlyEmptyContent)
          => /\ run'.pc = "errored"
             /\ error' = <<"Research failed: ", NoChunksMessage>>
             /\ calls = <<>> /\ calls' = <<>>]_vars

C10_Witness ==
    /\ run.pc = "errored"
    /\ run.successfullyParsed # <<>>
    /\ chunkerAgent(run.successfullyParsed) = <<>>
    /\ error = <<"Research failed: ", NoChunksMessage>>
    /\ calls = <<>>

\* C11: retrieval never makes a run end errored: whatever the ranking call
\* does, a run that reached retrieving goes on to synthesizing and issues the
\* generation call.
C11_RetrievalNeverErrors ==
    [][(run.pc = "retrieving" /\ run'.pc # "retrieving")
          => /\ run'.pc = "synthesizing"
             /\ Len(calls') = 2
             /\ calls'[2].service = "generation"]_vars

\* the step that ends a run
runEnds == runInProgress /\ run'.pc \in {"complete", "errored"}

\* the session of the run, after the step (none once it was deleted)
runSessionsAfter == SelectSeq(sessions', LAMBDA s : s.id = run.sessionId)

\* C12 as claimed: when a run has finished, there is either a report and no
\* error message, or an error message and no report, never both.
C12_ReportOrErrorNeverBoth ==
    [][(runEnds /\ runSessionsAfter # <<>>)
          => \/ runSessionsAfter[1].results # null /\ error' = <<>>
             \/ runSessionsAfter[1].results = null /\ error' # <<>>]_vars

\* C12 as amended: a run that ends errored leaves a "Research failed: ..."
\* message and no report; a run that ends complete leaves a report and no
\* "Research failed: ..." message, but a message set while it ran (a
\* source's "Failed to process ...") stays next to the report.
C12_ReportOrResearchFailed ==
    [][(runEnds /\ runSessionsAfter # <<>>)
          => IF run'.pc = "errored"
             THEN /\ runSessionsAfter[1].results = null
                  /\ error' # <<>> /\ error'[1] = "Research failed: "
             ELSE /\ runSessionsAfter[1].results # null
                  /\ error' # <<>> => error'[1] # "Research failed: "]_vars

C12_Witness ==
    /\ run.pc = "complete"
    /\ runSessions # <<>>
    /\ runSessions[1].results # null
    /\ error # <<>>
    /\ error[1] = "Failed to process "
    /\ \E k \in 1..Len(run.parsedSources) : run.parsedSources[k].status = "error"

(***************************************************************************)
(* chunkerAgent on its own, applied to lists of sources whose contents     *)
(* have the lengths around the window and the step, and to blank contents. *)
(* The text of length n cycles through seven letters, so that windows at   *)
(* different offsets differ.                                               *)
(***************************************************************************)
Letters == <<"a", "b", "c", "d", "e", "f", "g">>

textOf(n) == [i \in 1..n |-> Letters[((i - 1) % 7) + 1]]

TextLengths == {0, 1, 200, 500, 1600, 1601, 1800, 1801, 3400, 4000}

ChunkerTexts == {textOf(n) : n \in TextLengths} \cup {<<" ">>}

\* source j of a call: a complete source; titles tell the sources apart,
\* ids are either all different or all the same
chunkerSource(j, sameIds, text) ==
    [id |-> IF sameIds THEN 1 ELSE j, type |-> "pasted",
     title |-> <<"source", j>>, content |-> text, status |-> "complete", file |-> FALSE]

InitChunker ==
    /\ programIdle
    /\ \E texts \in SeqsUpTo(ChunkerTexts, MaxChunkerSources), sameIds \in BOOLEAN :
          /\ sameIds => Len(texts) > 1
          /\ harness = [agent |-> "chunkerAgent",
                        sources |-> [j \in 1..Len(texts) |-> chunkerSource(j, sameIds, texts[j])],
                        called |-> FALSE, result |-> <<>>]

CallChunkerAgent ==
    /\ harness.agent = "chunkerAgent"
    /\ ~harness.called
    /\ harness' = [harness EXCEPT !.called = TRUE, !.result = chunkerAgent(harness.sources)]
    /\ UNCHANGED <<sessions, activeSessionId, isLoading, progressMessage, error, run, calls, nextId>>

SpecChunker == InitChunker /\ [][CallChunkerAgent]_vars

chunked == harness.agent = "chunkerAgent" /\ harness.called

\* the chunks of the result that were cut from source j, in emission order
chunksOf(j) ==
    SelectSeq(harness.result, LAMBDA c : c.metadata.sourceTitle = harness.sources[j].title)

\* ceil(a / b) for a >= 0, b > 0
ceilDiv(a, b) == (a + b - 1) \div b

\* C13 as claimed: a source of length L > 0 gives ceil(max(L - 200, 0) / 1600)
\* chunks, a source of length 0 gives none.
C13_CountWithOverlapRemoved ==
    chunked => \A j \in 1..Len(harness.sources) :
        LET L == Len(harness.sources[j].content)
        IN Len(chunksOf(j)) = IF L > 0 THEN ceilDiv(IF L > 200 THEN L - 200 ELSE 0, 1600) ELSE 0

\* C13 as amended: a source of length L gives ceil(L / 1600) chunks (one per
\* offset 0, 1600, 3200, ... below L), none when L = 0.
C13_CountPerStride ==
    chunked => \A j \in 1..Len(harness.sources) :
        Len(chunksOf(j)) = ceilDiv(Len(harness.sources[j].content), 1600)

C13_Witness ==
    /\ chunked
    /\ \E j \in 1..Len(harness.sources) :
          /\ Len(harness.sources[j].content) = 1601
          /\ Len(chunksOf(j)) = 2

\* the window content[k * 1600 : min(k * 1600 + 1800, L)], k = 0, 1, ...
windowOf(content, k) ==
    [i \in 1..(Min(k * 1600 + 1800, Len(content)) - k * 1600) |-> content[k * 1600 + i]]

\* C14: the chunks of a source with non-empty content of length L are, in
\* order, the windows content[k*1600 : min(k*1600 + 1800, L)] for exactly
\* the k = 0, 1, 2, ... with k * 1600 < L.
C14_ChunksAreWindows ==
    chunked => \A j \in 1..Len(harness.sources) :
        LET content == harness.sources[j].content
            ks == {k \in 0..(Len(content) \div 1600) : k * 1600 < Len(content)}
            emitted == chunksOf(j)
        IN content # <<>> =>
              /\ Len(emitted) = Cardinality(ks)
              /\ \A k \in ks : emitted[k + 1].content = windowOf(content, k)

C14_Witness ==
    /\ chunked
    /\ \E j \in 1..Len(harness.sources) :
          /\ Len(harness.sources[j].content) = 4000
          /\ Len(chunksOf(j)) = 3
          /\ Len(chunksOf(j)[3].content) = 800
          /\ chunksOf(j)[3].content = windowOf(harness.sources[j].content, 2)

\* the last n characters and the first n characters of a string
lastChars(t, n) == SubSeq(t, Len(t) - n + 1, Len(t))

firstChars(t, n) == SubSeq(t, 1, n)

\* C15: the last 200 characters of a chunk are the first 200 characters of
\* the next chunk of the same source; when the next chunk is the source's
\* final one the shared region may be shorter than 200 but is never empty.
C15_ConsecutiveChunksOverlap ==
    chunked => \A j \in 1..Len(harness.sources) :
        \A p \in 1..(Len(chunksOf(j)) - 1) :
            LET earlier == chunksOf(j)[p].content
                later == chunksOf(j)[p + 1].content
                shared == Min(200, Len(later))
            IN /\ shared >= 1
               /\ shared <= Len(earlier)
               /\ lastChars(earlier, shared) = firstChars(later, shared)
               /\ p + 1 < Len(chunksOf(j)) => shared = 200 /\ Len(earlier) = 1800

C15_Witness ==
    /\ chunked
    /\ \E j \in 1..Len(harness.sources) :
          /\ Len(chunksOf(j)) = 3
          /\ lastChars(chunksOf(j)[1].content, 200) = firstChars(chunksOf(j)[2].content, 200)
    /\ \E j \in 1..Len(harness.sources) :
          /\ Len(chunksOf(j)) = 2
          /\ Len(chunksOf(j)[2].content) < 200
          /\ lastChars(chunksOf(j)[1].content, Len(chunksOf(j)[2].content)) = chunksOf(j)[2].content

\* the source a chunk at a position of the result was cut from: the chunks
\* of the sources follow each other in source order
sourceAt(p) ==
    CHOOSE j \in 1..Len(harness.sources) :
        \E q \in 1..Len(chunksOf(j)) : chunksOf(j)[q] = harness.result[p]

\* C16: the chunk at zero-based position n of the whole result has the id
\* "{sourceId}-chunk-{n}" of the source it was cut from; so the ids of one
\* pass are pairwise distinct, also when sources share an id, and increase
\* within a source.
C16_IdsCountAcrossSources ==
    chunked =>
        /\ \A p \in 1..Len(harness.result) :
              /\ harness.result[p].id = <<harness.sources[sourceAt(p)].id, "-chunk-", p - 1>>
              /\ harness.result[p].sourceId = harness.sources[sourceAt(p)].id
        /\ \A p, q \in 1..Len(harness.result) :
              p # q => harness.result[p].id # harness.result[q].id
        /\ \A j \in 1..Len(harness.sources) :
              \A p \in 1..(Len(chunksOf(j)) - 1) :
                  chunksOf(j)[p].id[3] < chunksOf(j)[p + 1].id[3]

C16_Witness ==
    /\ chunked
    /\ Len(harness.sources) = 2
    /\ harness.sources[1].id = harness.sources[2].id
    /\ Len(chunksOf(1)) = 2
    /\ Len(chunksOf(2)) = 2
    /\ chunksOf(2)[1].id = <<harness.sources[2].id, "-chunk-", 2>>

\* C17: a source whose content is empty or only white space contributes no
\* chunk, and the chunks of the other sources are what they would be without
\* it.
C17_BlankSourceGivesNoChunk ==
    chunked => \A j \in 1..Len(harness.sources) :
        trim(harness.sources[j].content) = <<>> => chunksOf(j) = <<>>

(***************************************************************************)
(* C18.  The external calls of a run form a prefix of <ranking,            *)
(* generation>: the ranking call carries the run's chunks; the generation  *)
(* call is issued only once the ranking call has settled and carries the   *)
(* list retrievalAgent returned; during a run the call sequence only grows *)
(* at its end, so no call is repeated or retried whatever the calls        *)
(* return.                                                                 *)
(***************************************************************************)
callsArePrefix ==
    /\ Len(calls) <= 2
    /\ Len(calls) >= 1 => /\ calls[1] = [service |-> "ranking", chunks |-> run.chunks]
                          /\ run.pc \in {"retrieving", "synthesizing", "complete", "errored"}
    /\ run.pc = "retrieving" => Len(calls) = 1
    /\ run.pc = "synthesizing" => Len(calls) = 2
    /\ Len(calls) = 2 =>
          /\ calls[2] = [service |-> "generation", chunks |-> run.relevantChunks]
          /\ run.pc \in {"synthesizing", "complete", "errored"}
          /\ \E outcome \in RankOutcomes :
                retrievalAgent(run.chunks, outcome) = Return(run.relevantChunks)

C18_CallsArePrefixOfRankingGeneration ==
    /\ []callsArePrefix
    /\ [][/\ (runInProgress /\ calls' # calls) =>
                /\ Len(calls') = Len(calls) + 1
                /\ SubSeq(calls', 1, Len(calls)) = calls
          /\ (run.pc \in {"synthesizing", "complete", "errored"}
                 /\ run'.pc \in {"synthesizing", "complete", "errored"}) => calls' = calls]_vars

C18_Witness ==
    /\ run.pc \in {"complete", "errored"}
    /\ Len(calls) = 2
    /\ calls[2].service = "generation"
    /\ Len(calls[1].chunks) = 2
    /\ Len(calls[2].chunks) = 1
    /\ calls[2].chunks[1] = calls[1].chunks[1]

(***************************************************************************)
(* C19.  As claimed: when the try block of synthesisAgent fails, the error *)
(* the caller receives carries the message of the underlying cause.        *)
(***************************************************************************)
synthesisTryFailed ==
    /\ harness.agent = "synthesisAgent"
    /\ harness.called
    /\ ~contextThrows(harness.chunks)
    /\ synthesisTry(harness.chunks, harness.outcome).threw

C19_FailureCarriesCause ==
    synthesisTryFailed =>
        harness.result = Throw(synthesisTry(harness.chunks, harness.outcome).message)

\* C19, amended: whenever the generation call fails, its response has no
\* text or its text is not well-formed JSON, synthesisAgent throws the one
\* fixed message "Failed to synthesize the research report.", whatever the
\* cause was.
C19_FailureIsOneFixedMessage ==
    (/\ harness.agent = "synthesisAgent"
     /\ harness.called
     /\ ~contextThrows(harness.chunks)
     /\ \/ harness.outcome.kind \in {"fail", "notext"}
        \/ ~harness.outcome.wellFormed)
        => harness.result = Throw("Failed to synthesize the research report.")

C19_Witness ==
    /\ synthesisTryFailed
    /\ harness.outcome.kind = "text"
    /\ ~harness.outcome.wellFormed
    /\ harness.result.threw
    /\ harness.result.message # "Unexpected end of JSON input"

(***************************************************************************)
(* C20.  At most one pipeline run is in progress: the loading flag is set  *)
(* exactly while a run is in progress, and from the step that starts a run *)
(* until it has ended as complete or errored no step starts a run again,   *)
(* for the run's session or for any other: the run stays the run of the    *)
(* same session over the same sources, it only moves forward, and the only *)
(* write to any session's results is the report the run stores as it       *)
(* completes.                                                              *)
(***************************************************************************)
pcRank(pc) ==
    CASE pc = "ingesting" -> 1
      [] pc = "allSettled" -> 2
      [] pc = "retrieving" -> 3
      [] pc = "synthesizing" -> 4
      [] pc \in {"complete", "errored"} -> 5
      [] OTHER -> 0

storedShowsParse(stored, parsed) ==
    \E n \in 1..Len(stored) :
        /\ stored[n].id = parsed.id
        /\ stored[n].status = parsed.status
        /\ parsed.status = "complete" => stored[n].content = parsed.content

C21_StoredSourcesShowParseOutcome ==
    [][(run.pc = "allSettled" /\ run'.pc # "allSettled" /\ runSessionsAfter # <<>>)
          => \A k \in 1..Len(run.sources) :
                ~needsNoParse(run.sources[k])
                   => /\ run.parsedSources[k].status \in {"error", "complete"}
                      /\ storedShowsParse(runSessionsAfter[1].sources, run.parsedSources[k])]_vars

\* the first 1600 characters of every chunk but the last, then the last chunk
RECURSIVE joinChunks(_)
joinChunks(cs) ==
    IF cs = <<>> THEN <<>>
    ELSE IF Len(cs) = 1 THEN cs[1].content
    ELSE firstChars(cs[1].content, Min(1600, Len(cs[1].content))) \o joinChunks(Tail(cs))

\* C22: chunking loses no text: for every source with non-empty content
\* the first 1600 characters of each of its chunks except the last, followed
\* by the whole last chunk, are the content; every chunk is non-empty and at
\* most 1800 characters long.
C22_ChunksRebuildContent ==
    chunked =>
        /\ \A p \in 1..Len(harness.result) :
              /\ Len(harness.result[p].content) >= 1
              /\ Len(harness.result[p].content) <= 1800
        /\ \A j \in 1..Len(harness.sources) :
              harness.sources[j].content # <<>>
                 => joinChunks(chunksOf(j)) = harness.sources[j].content

C22_Witness ==
    /\ chunked
    /\ \E j \in 1..Len(harness.sources) :
          /\ Len(harness.sources[j].content) = 3400
          /\ Len(chunksOf(j)) = 3
          /\ Len(chunksOf(j)[1].content) = 1800
          /\ Len(chunksOf(j)[3].content) = 200
          /\ joinChunks(chunksOf(j)) = harness.sources[j].content

\* C23: the write of the parsed sources at the end of the ingest stage
\* removes no source from the run's session: every source the session holds
\* before the write, one added while the run was in progress included, is
\* still among its sources after it.
C23_WriteBackKeepsAddedSources ==
    [][(run.pc = "allSettled" /\ run'.pc # "allSettled"
          /\ runSessions # <<>> /\ runSessionsAfter # <<>>)
          => \A n \in 1..Len(runSessions[1].sources) :
                \E m \in 1..Len(runSessionsAfter[1].sources) :
                    runSessionsAfter[1].sources[m].id = runSessions[1].sources[n].id]_vars

(***************************************************************************)
(* C24.  Every write of a run lands on the session the run was started on: *)
(* a step of the run neither adds nor removes a session (a deleted         *)
(* starting session is not re-created) and leaves every session other than *)
(* the starting one as it was, whichever session is active at the time.    *)
(***************************************************************************)
sessionIds(ss) == [k \in 1..Len(ss) |-> ss[k].id]

C24_RunWritesOnlyItsSession ==
    [][run' # run =>
         /\ runInProgress => run'.sessionId = run.sessionId
         /\ sessionIds(sessions') = sessionIds(sessions)
         /\ \A k \in 1..Len(sessions) :
               sessions[k].id # run'.sessionId => sessions'[k] = sessions[k]]_vars

C24_Witness ==
    /\ run.pc = "complete"
    /\ activeSessionId # run.sessionId
    /\ hasActiveSession
    /\ activeSession.results = null
    /\ activeSession.sources = <<>>
    /\ runSessions # <<>>
    /\ runSessions[1].results # null
    /\ runSessions[1].sources = run.parsedSources

(***************************************************************************)
(* C25.  Every started run eventually finishes.  SpecFair adds what the    *)
(* claim assumes: every pending parse and every external call in flight    *)
(* eventually settles, and a queued continuation of the handler is run.    *)
(* Then a run in progress leads to a run that is complete or errored, and  *)
(* whenever a run has ended the loading flag is false and the progress     *)
(* message is cleared.                                                     *)
(***************************************************************************)
runEnded == run.pc \in {"complete", "errored"}

C25_RunEventuallyFinishes ==
    /\ [](runEnded => (~isLoading /\ progressMessage = ""))
    /\ runInProgress ~> runEnded

C25_Witness ==
    /\ run.pc = "errored"
    /\ error = <<"Research failed: ", SynthesisMessage>>
    /\ ~isLoading
    /\ progressMessage = ""
    /\ hasActiveSession
    /\ ~analyzeDisabled

====
